---- MODULE Spec2Model ----
(***************************************************************************)
(* FROST threshold Schnorr signatures: trusted-dealer key generation       *)
(* (frost-ristretto255/src/frost/keys.rs) and round-two signing            *)
(* (frost-core/src/round2.rs).                                             *)
(*                                                                         *)
(* The group is a cyclic group of prime order Q.  Such a group is          *)
(* isomorphic to (Z_Q, +), so an element g^x is represented by x: the      *)
(* generator is 1, the identity is 0, element addition is addition mod Q   *)
(* and scalar multiplication is multiplication mod Q.  Two elements are    *)
(* equal exactly when their representations are equal.                     *)
(***************************************************************************)
EXTENDS Integers, Sequences, FiniteSets

\* ------------------------------------------------------------------ bounds

MaxSigners == 3
MaxSecret == 2
MaxCoeff == 1
MaxDelta == 3
MaxNonce == 2
MaxMsg == 1
MaxNonceUses == 2

\* ------------------------------------------------- scalar field and group

\* Order of the scalar field and of the group (a prime).
Q == 7

Scalars == 0 .. (Q - 1)

\* Scalar::from(u16): reduction into the field.
ScalarFrom(x) == x % Q

ScalarAdd(a, b) == (a + b) % Q

ScalarMul(a, b) == (a * b) % Q

\* RistrettoPoint::identity()
Identity == 0

\* RISTRETTO_BASEPOINT_POINT * x
BasepointMul(x) == x % Q

\* element + element
ElementAdd(p, r) == (p + r) % Q

\* element * scalar
ElementMul(p, k) == (p * k) % Q

\* ------------------------------------------------------------ error values

InvalidMinSigners == "Threshold cannot be less than 2"

InvalidMaxSigners == "Number of shares cannot be less than the minimum threshold 2"

InvalidMinSignersExceedsMaxSigners == "Threshold cannot exceed numshares"

InvalidSecretShare == "SecretShare is invalid."

Ok == "Ok"

\* --------------------------------------------------------------- keys.rs

\* From<Secret> for Public
PublicFrom(secret_value) == BasepointMul(secret_value)

\* The fold of SecretShare::verify: (x_to_the_i, sum_so_far) over the
\* commitments, from position k on.
RECURSIVE VerifyFold(_, _, _, _, _)
VerifyFold(commitment, k, x, x_to_the_i, sum_so_far) ==
    IF k > Len(commitment) THEN sum_so_far
    ELSE VerifyFold(commitment, k + 1, x, ScalarMul(x_to_the_i, x),
                    ElementAdd(sum_so_far, ElementMul(commitment[k], x_to_the_i)))

\* SecretShare::verify
SecretShareVerify(share) ==
    LET f_result == BasepointMul(share.value)
        x == ScalarFrom(share.index)
        result == VerifyFold(share.commitment, 1, x, 1, Identity)
    IN  IF f_result # result THEN InvalidSecretShare ELSE Ok

\* The inner loop of generate_secret_shares: `for i in (0..numcoeffs).rev()`,
\* with i counted from numcoeffs down to 1 over the 1-based sequence.
RECURSIVE HornerLoop(_, _, _, _)
HornerLoop(coeffs, i, scalar_index, value) ==
    IF i = 0 THEN value
    ELSE HornerLoop(coeffs, i - 1, scalar_index,
                    ScalarMul(ScalarAdd(value, coeffs[i]), scalar_index))

\* The threshold checks of generate_secret_shares, in the order of the code.
ValidateSignersNoMaxCheck(numshares, thresh) ==
    IF thresh < 2 THEN InvalidMinSigners
    ELSE IF thresh > numshares THEN InvalidMinSignersExceedsMaxSigners
    ELSE Ok

ValidateSigners(numshares, thresh) ==
    IF thresh < 2 THEN InvalidMinSigners
    ELSE IF numshares < 2 THEN InvalidMaxSigners
    ELSE IF thresh > numshares THEN InvalidMinSignersExceedsMaxSigners
    ELSE Ok

\* The share value of one participant: Horner evaluation, then `+= secret`.
ShareValueForgetsSecret(secret_value, coeffs, index) ==
    HornerLoop(coeffs, Len(coeffs), ScalarFrom(index), 0)

ShareValue(secret_value, coeffs, index) ==
    ScalarAdd(HornerLoop(coeffs, Len(coeffs), ScalarFrom(index), 0), secret_value)

GenerateSecretSharesCommitsCoefficientsOnly(secret_value, numshares, thresh, rng) ==
    LET err == ValidateSigners(numshares, thresh) IN
    IF err # Ok THEN [err |-> err, coefficients |-> <<>>, shares |-> <<>>]
    ELSE
        LET numcoeffs == thresh - 1
            coeffs == SubSeq(rng, 1, numcoeffs)
            commitment == [k \in 1 .. numcoeffs |-> BasepointMul(coeffs[k])]
        IN  [err |-> Ok,
             coefficients |-> coeffs,
             shares |-> [index \in 1 .. numshares |->
                            [index |-> index,
                             value |-> ShareValue(secret_value, coeffs, index),
                             commitment |-> commitment]]]

\* generate_secret_shares.  `rng` is the sequence of scalars the RNG yields
\* for the numcoeffs = threshold - 1 coefficients.
generate_secret_shares(secret_value, numshares, thresh, rng) ==
    LET err == ValidateSigners(numshares, thresh) IN
    IF err # Ok THEN [err |-> err, coefficients |-> <<>>, shares |-> <<>>]
    ELSE
        LET numcoeffs == thresh - 1
            coeffs == SubSeq(rng, 1, numcoeffs)
            commitment == <<BasepointMul(secret_value)>>
                          \o [k \in 1 .. numcoeffs |-> BasepointMul(coeffs[k])]
        IN  [err |-> Ok,
             coefficients |-> coeffs,
             shares |-> [index \in 1 .. numshares |->
                            [index |-> index,
                             value |-> ShareValue(secret_value, coeffs, index),
                             commitment |-> commitment]]]

\* keygen_with_dealer
keygen_with_dealer(n, thresh, secret_value, rng) ==
    LET group_public == BasepointMul(secret_value)
        generated == generate_secret_shares(secret_value, n, thresh, rng)
        secret_shares == generated.shares
    IN  IF generated.err # Ok
        THEN [err |-> generated.err, coefficients |-> <<>>, share_packages |-> <<>>,
              public_key_package |-> [signer_pubkeys |-> <<>>, group_public |-> Identity]]
        ELSE [err |-> Ok,
              coefficients |-> generated.coefficients,
              share_packages |->
                  [i \in DOMAIN secret_shares |->
                      [index |-> secret_shares[i].index,
                       secret_share |-> secret_shares[i],
                       public |-> PublicFrom(secret_shares[i].value),
                       group_public |-> group_public]],
              public_key_package |->
                  [signer_pubkeys |->
                      [i \in DOMAIN secret_shares |-> PublicFrom(secret_shares[i].value)],
                   group_public |-> group_public]]

\* TryFrom<SharePackage> for KeyPackage
KeyPackageTryFromUnverified(share_package) ==
    [err |-> Ok,
     key_package |-> [index |-> share_package.index,
                      secret_share |-> share_package.secret_share.value,
                      public |-> share_package.public,
                      group_public |-> share_package.group_public]]

KeyPackageTryFrom(share_package) ==
    LET err == SecretShareVerify(share_package.secret_share) IN
    IF err # Ok
    THEN [err |-> err]
    ELSE [err |-> Ok,
          key_package |-> [index |-> share_package.index,
                           secret_share |-> share_package.secret_share.value,
                           public |-> share_package.public,
                           group_public |-> share_package.group_public]]

\* ------------------------------------------------- round one (frost-core)

\* round1::commit: the nonce pair and the commitments derived from it.
SigningNoncesFrom(hiding, binding) ==
    [hiding |-> hiding,
     binding |-> binding,
     commitments |-> [hiding |-> BasepointMul(hiding), binding |-> BasepointMul(binding)]]

\* The frost-core KeyPackage read by `sign`, built from the KeyPackage of
\* keys.rs and the threshold of the key generation that produced it.
CoreKeyPackage(key_package, min) ==
    [identifier |-> key_package.index,
     signing_share |-> key_package.secret_share,
     verifying_share |-> key_package.public,
     verifying_key |-> key_package.group_public,
     min_signers |-> min]

\* ------------------------------------------ binding factors and challenge

ScalarSub(a, b) == (a - b + Q) % Q

Invert(a) == CHOOSE y \in Scalars : ScalarMul(a, y) = 1

\* Smallest identifier of a non-empty set: the commitments are kept in a map
\* ordered by identifier.
First(ids) == CHOOSE i \in ids : \A j \in ids : i <= j

\* The canonical encoding of the commitment list, identifiers ascending,
\* folded into one scalar (the hash input).
RECURSIVE EncodeGroupCommitmentList(_, _, _)
EncodeGroupCommitmentList(commitments, ids, acc) ==
    IF ids = {} THEN acc
    ELSE LET i == First(ids) IN
         EncodeGroupCommitmentList(commitments, ids \ {i},
             (3 * acc + i + 2 * commitments[i].hiding + 4 * commitments[i].binding + 1) % Q)

\* H1, the binding-factor hash: a fixed function of its whole input.
H1(encoded_list, message, verifying_key, identifier) ==
    (2 * encoded_list + 3 * message + 5 * verifying_key + identifier + 1) % Q

\* H2, the challenge hash: a fixed function of its whole input.
H2(group_commitment, verifying_key, message) ==
    (3 * group_commitment + 2 * verifying_key + message + 1) % Q

\* compute_binding_factor_list: rho_i for every identifier of the package.
compute_binding_factor_list(signing_package, verifying_key) ==
    LET commitments == signing_package.signing_commitments
        encoded == EncodeGroupCommitmentList(commitments, DOMAIN commitments, 0)
    IN  [i \in DOMAIN commitments |->
            H1(encoded, signing_package.message, verifying_key, i)]

\* Sum of group elements f[i] over the identifiers in ids.
RECURSIVE ElementSum(_, _)
ElementSum(f, ids) ==
    IF ids = {} THEN Identity
    ELSE LET i == First(ids) IN ElementAdd(f[i], ElementSum(f, ids \ {i}))

\* D_i + rho_i * E_i
GroupCommitmentShare(commitment, binding_factor) ==
    ElementAdd(commitment.hiding, ElementMul(commitment.binding, binding_factor))

\* compute_group_commitment: R = sum of D_i + rho_i * E_i; fails when R is the
\* identity.
compute_group_commitment(signing_package, binding_factor_list) ==
    LET commitments == signing_package.signing_commitments
        R == ElementSum([i \in DOMAIN commitments |->
                            GroupCommitmentShare(commitments[i], binding_factor_list[i])],
                        DOMAIN commitments)
    IN  IF R = Identity THEN [err |-> "InvalidGroupCommitment", value |-> R]
        ELSE [err |-> Ok, value |-> R]

RECURSIVE ScalarProduct(_, _)
ScalarProduct(f, ids) ==
    IF ids = {} THEN 1
    ELSE LET i == First(ids) IN ScalarMul(f[i], ScalarProduct(f, ids \ {i}))

\* derive_interpolating_value: the Lagrange coefficient at 0 of `identifier`
\* over the identifiers of the package, numerator times inverted denominator.
derive_interpolating_value(identifier, signing_package) ==
    LET ids == DOMAIN signing_package.signing_commitments
        others == ids \ {identifier}
        x_i == ScalarFrom(identifier)
        num == ScalarProduct([j \in others |-> ScalarFrom(j)], others)
        den == ScalarProduct([j \in others |-> ScalarSub(ScalarFrom(j), x_i)], others)
    IN  IF identifier \notin ids THEN [err |-> "UnknownIdentifier", value |-> 0]
        ELSE [err |-> Ok, value |-> ScalarMul(num, Invert(den))]

\* <C>::challenge
challenge(group_commitment, verifying_key, message) ==
    H2(group_commitment, verifying_key, message)

\* ------------------------------------------------------------- round2.rs

SignatureShareVerifyBlamesFirst(share, identifier, group_commitment_share, verifying_share, lambda_i, c) ==
    IF BasepointMul(share)
         # ElementAdd(group_commitment_share,
                      ElementMul(ElementMul(verifying_share, c), lambda_i))
    THEN [err |-> "InvalidSignatureShare", culprit |-> 1]
    ELSE [err |-> Ok, culprit |-> 0]

SignatureShareVerifyNoLambda(share, identifier, group_commitment_share, verifying_share, lambda_i, c) ==
    IF BasepointMul(share)
         # ElementAdd(group_commitment_share, ElementMul(verifying_share, c))
    THEN [err |-> "InvalidSignatureShare", culprit |-> identifier]
    ELSE [err |-> Ok, culprit |-> 0]

\* SignatureShare::verify, for a suite that is not Taproot-compatible.
SignatureShareVerify(share, identifier, group_commitment_share, verifying_share, lambda_i, c) ==
    IF BasepointMul(share)
         # ElementAdd(group_commitment_share,
                      ElementMul(ElementMul(verifying_share, c), lambda_i))
    THEN [err |-> "InvalidSignatureShare", culprit |-> identifier]
    ELSE [err |-> Ok, culprit |-> 0]

ComputeSignatureShareNoLambda(signer_nonces, binding_factor, lambda_i, key_package, c) ==
    ScalarAdd(ScalarAdd(signer_nonces.hiding,
                        ScalarMul(signer_nonces.binding, binding_factor)),
              ScalarMul(key_package.signing_share, c))

ComputeSignatureShareNoBinding(signer_nonces, binding_factor, lambda_i, key_package, c) ==
    ScalarAdd(ScalarAdd(signer_nonces.hiding, signer_nonces.binding),
              ScalarMul(ScalarMul(lambda_i, key_package.signing_share), c))

\* compute_signature_share
compute_signature_share(signer_nonces, binding_factor, lambda_i, key_package, c) ==
    ScalarAdd(ScalarAdd(signer_nonces.hiding,
                        ScalarMul(signer_nonces.binding, binding_factor)),
              ScalarMul(ScalarMul(lambda_i, key_package.signing_share), c))

\* The part of `sign` after its three precondition checks.
SignCompute(signing_package, signer_nonces, key_package) ==
    LET binding_factor_list ==
            compute_binding_factor_list(signing_package, key_package.verifying_key)
        group_commitment == compute_group_commitment(signing_package, binding_factor_list)
        lambda_i == derive_interpolating_value(key_package.identifier, signing_package)
        c == challenge(group_commitment.value, key_package.verifying_key,
                       signing_package.message)
    IN  IF key_package.identifier \notin DOMAIN binding_factor_list
        THEN [err |-> "UnknownIdentifier", share |-> 0]
        ELSE IF group_commitment.err # Ok THEN [err |-> group_commitment.err, share |-> 0]
        ELSE IF lambda_i.err # Ok THEN [err |-> lambda_i.err, share |-> 0]
        ELSE [err |-> Ok,
              share |-> compute_signature_share(
                            signer_nonces, binding_factor_list[key_package.identifier],
                            lambda_i.value, key_package, c)]

SignChecksOwnCommitmentFirst(signing_package, signer_nonces, key_package) ==
    LET commitments == signing_package.signing_commitments IN
    IF key_package.identifier \notin DOMAIN commitments
    THEN [err |-> "MissingCommitment", share |-> 0]
    ELSE IF signer_nonces.commitments # commitments[key_package.identifier]
    THEN [err |-> "IncorrectCommitment", share |-> 0]
    ELSE IF Cardinality(DOMAIN commitments) < key_package.min_signers
    THEN [err |-> "IncorrectNumberOfCommitments", share |-> 0]
    ELSE SignCompute(signing_package, signer_nonces, key_package)

SignSkipsCommitmentComparison(signing_package, signer_nonces, key_package) ==
    LET commitments == signing_package.signing_commitments IN
    IF Cardinality(DOMAIN commitments) < key_package.min_signers
    THEN [err |-> "IncorrectNumberOfCommitments", share |-> 0]
    ELSE IF key_package.identifier \notin DOMAIN commitments
    THEN [err |-> "MissingCommitment", share |-> 0]
    ELSE SignCompute(signing_package, signer_nonces, key_package)

\* sign
sign(signing_package, signer_nonces, key_package) ==
    LET commitments == signing_package.signing_commitments IN
    IF Cardinality(DOMAIN commitments) < key_package.min_signers
    THEN [err |-> "IncorrectNumberOfCommitments", share |-> 0]
    ELSE IF key_package.identifier \notin DOMAIN commitments
    THEN [err |-> "MissingCommitment", share |-> 0]
    ELSE IF signer_nonces.commitments # commitments[key_package.identifier]
    THEN [err |-> "IncorrectCommitment", share |-> 0]
    ELSE SignCompute(signing_package, signer_nonces, key_package)

\* ----------------------------------------------------------- aggregation

\* aggregate: z is the sum of the shares, R the group commitment.
aggregate(signing_package, signature_shares, verifying_key) ==
    LET binding_factor_list == compute_binding_factor_list(signing_package, verifying_key)
        group_commitment == compute_group_commitment(signing_package, binding_factor_list)
    IN  [R |-> group_commitment.value,
         z |-> ElementSum(signature_shares, DOMAIN signature_shares)]

\* VerifyingKey::verify: the Schnorr check g^z == R + c * Y.
VerifySignature(signature, verifying_key, message) ==
    LET c == challenge(signature.R, verifying_key, message) IN
    BasepointMul(signature.z) = ElementAdd(signature.R, ElementMul(verifying_key, c))

\* ---------------------------------------------------------------- state

VARIABLES
    pc,                  \* position of the run
    num_signers,         \* keygen_with_dealer: num_signers
    threshold,           \* keygen_with_dealer: threshold
    secret,              \* keygen_with_dealer: the dealer's secret
    coefficients,        \* generate_secret_shares: the sampled coefficients
    keygen_err,          \* result kind of keygen_with_dealer
    share_packages,      \* index -> SharePackage, as received by the participants
    public_key_package,  \* the PublicKeyPackage returned by the dealer
    tampered,            \* index of the share altered in transit, 0 if none
    key_package_results, \* index -> result of KeyPackage::try_from
    nonces,              \* identifier -> SigningNonces held by that signer
    signing_package,     \* the SigningPackage sent by the coordinator
    sign_results,        \* identifier -> result of sign
    nonce_uses,          \* identifier -> successful sign calls made with its nonces
    signature_shares,    \* identifier -> share as received by the coordinator
    corrupted,           \* identifier whose share was altered, 0 if none
    signature,           \* the aggregated signature
    signature_ok,        \* result of the Schnorr check of the signature
    share_verdicts       \* identifier -> result of SignatureShare::verify

keygen_vars == <<num_signers, threshold, secret, coefficients, keygen_err,
                 public_key_package>>

signing_vars == <<nonces, signing_package, sign_results, nonce_uses, signature_shares,
                  corrupted, signature, signature_ok, share_verdicts>>

vars == <<pc, keygen_vars, share_packages, tampered, key_package_results, signing_vars>>

SecretValues == {ScalarFrom(x) : x \in 0 .. MaxSecret}

CoefficientValues == {ScalarFrom(x) : x \in 0 .. MaxCoeff}

NonceValues == {ScalarFrom(x) : x \in 1 .. MaxNonce} \ {0}

Deltas == {ScalarFrom(x) : x \in 1 .. MaxDelta} \ {0}

Messages == 0 .. MaxMsg

NoPackage == [message |-> 0, signing_commitments |-> <<>>]

NoSignature == [R |-> Identity, z |-> 0]

Init ==
    /\ pc = "start"
    /\ num_signers = 0
    /\ threshold = 0
    /\ secret = 0
    /\ coefficients = <<>>
    /\ keygen_err = Ok
    /\ share_packages = <<>>
    /\ public_key_package = [signer_pubkeys |-> <<>>, group_public |-> Identity]
    /\ tampered = 0
    /\ key_package_results = <<>>
    /\ nonces = <<>>
    /\ signing_package = NoPackage
    /\ sign_results = <<>>
    /\ nonce_uses = <<>>
    /\ signature_shares = <<>>
    /\ corrupted = 0
    /\ signature = NoSignature
    /\ signature_ok = FALSE
    /\ share_verdicts = <<>>

\* --------------------------------------------------------------- actions

\* The dealer calls keygen_with_dealer(n, t, rng).
KeygenWithDealer ==
    /\ pc = "start"
    /\ \E n \in 0 .. MaxSigners, t \in 0 .. (MaxSigners + 1), s \in SecretValues :
         \E rng \in [1 .. (IF ValidateSigners(n, t) = Ok THEN t - 1 ELSE 0)
                      -> CoefficientValues] :
           LET out == keygen_with_dealer(n, t, s, rng) IN
           /\ num_signers' = n
           /\ threshold' = t
           /\ secret' = s
           /\ coefficients' = out.coefficients
           /\ keygen_err' = out.err
           /\ share_packages' = out.share_packages
           /\ public_key_package' = out.public_key_package
           /\ pc' = IF out.err = Ok THEN "dealt" ELSE "keygen_failed"
    /\ UNCHANGED <<tampered, key_package_results, signing_vars>>

\* A share value is altered between the dealer and participant i.
TamperShareValue ==
    /\ pc = "dealt"
    /\ tampered = 0
    /\ key_package_results = <<>>
    /\ \E i \in DOMAIN share_packages, delta \in Deltas :
         /\ share_packages' =
                [share_packages EXCEPT ![i].secret_share.value = ScalarAdd(@, delta)]
         /\ tampered' = i
    /\ UNCHANGED <<pc, keygen_vars, key_package_results, signing_vars>>

\* A coefficient commitment is altered between the dealer and participant i.
TamperCommitment ==
    /\ pc = "dealt"
    /\ tampered = 0
    /\ key_package_results = <<>>
    /\ \E i \in DOMAIN share_packages, delta \in Deltas :
         \E k \in 1 .. Len(share_packages[i].secret_share.commitment) :
           /\ share_packages' =
                  [share_packages EXCEPT
                      ![i].secret_share.commitment[k] = ElementAdd(@, delta)]
           /\ tampered' = i
    /\ UNCHANGED <<pc, keygen_vars, key_package_results, signing_vars>>

\* The next participant converts its SharePackage: KeyPackage::try_from.
\* The run goes on to signing only when every conversion succeeded.
TryFrom ==
    /\ pc = "dealt"
    /\ LET i == First(DOMAIN share_packages \ DOMAIN key_package_results)
           result == KeyPackageTryFrom(share_packages[i])
           results == [j \in DOMAIN key_package_results \cup {i} |->
                          IF j = i THEN result ELSE key_package_results[j]]
       IN  /\ key_package_results' = results
           /\ pc' = IF DOMAIN results # DOMAIN share_packages THEN "dealt"
                    ELSE IF \A j \in DOMAIN results : results[j].err = Ok THEN "round1"
                    ELSE "rejected"
    /\ UNCHANGED <<keygen_vars, share_packages, tampered, signing_vars>>

\* Round one: the signers of a set S each sample a nonce pair and commit.
Round1 ==
    /\ pc = "round1"
    /\ \E S \in (SUBSET DOMAIN key_package_results) \ {{}} :
         \E pairs \in [S -> NonceValues \X NonceValues] :
           nonces' = [i \in S |-> SigningNoncesFrom(pairs[i][1], pairs[i][2])]
    /\ nonce_uses' = [i \in DOMAIN nonces' |-> 0]
    /\ pc' = "committed"
    /\ UNCHANGED <<keygen_vars, share_packages, tampered, key_package_results,
                   signing_package, sign_results, signature_shares, corrupted,
                   signature, signature_ok, share_verdicts>>

\* The coordinator bundles the commitments it received with a message.
FormPackage ==
    /\ pc = "committed"
    /\ \E m \in Messages :
         signing_package' =
             [message |-> m,
              signing_commitments |-> [i \in DOMAIN nonces |-> nonces[i].commitments]]
    /\ pc' = "signing"
    /\ UNCHANGED <<keygen_vars, share_packages, tampered, key_package_results, nonces,
                   sign_results, nonce_uses, signature_shares, corrupted, signature,
                   signature_ok, share_verdicts>>

\* The package lacks the commitments of signer j.
FormPackageWithout ==
    /\ pc = "committed"
    /\ \E m \in Messages, j \in DOMAIN nonces :
         signing_package' =
             [message |-> m,
              signing_commitments |->
                  [i \in DOMAIN nonces \ {j} |-> nonces[i].commitments]]
    /\ pc' = "signing"
    /\ UNCHANGED <<keygen_vars, share_packages, tampered, key_package_results, nonces,
                   sign_results, nonce_uses, signature_shares, corrupted, signature,
                   signature_ok, share_verdicts>>

\* The package lists for signer j commitments of other nonces than j holds.
FormPackageMismatch ==
    /\ pc = "committed"
    /\ \E m \in Messages, j \in DOMAIN nonces, d \in NonceValues, e \in NonceValues :
         /\ SigningNoncesFrom(d, e).commitments # nonces[j].commitments
         /\ signing_package' =
                [message |-> m,
                 signing_commitments |->
                     [i \in DOMAIN nonces |->
                         IF i = j THEN SigningNoncesFrom(d, e).commitments
                         ELSE nonces[i].commitments]]
    /\ pc' = "signing"
    /\ UNCHANGED <<keygen_vars, share_packages, tampered, key_package_results, nonces,
                   sign_results, nonce_uses, signature_shares, corrupted, signature,
                   signature_ok, share_verdicts>>

\* The next signer calls sign(&signing_package, &signer_nonces, &key_package).
\* The nonces are borrowed: the signer still holds them after the call.
Sign ==
    /\ pc = "signing"
    /\ LET i == First(DOMAIN nonces \ DOMAIN sign_results)
           key_package == CoreKeyPackage(key_package_results[i].key_package, threshold)
           result == sign(signing_package, nonces[i], key_package)
           results == [j \in DOMAIN sign_results \cup {i} |->
                          IF j = i THEN result ELSE sign_results[j]]
       IN  /\ sign_results' = results
           /\ nonce_uses' = [nonce_uses EXCEPT ![i] = IF result.err = Ok THEN @ + 1 ELSE @]
           /\ signature_shares' =
                  [j \in {k \in DOMAIN results : results[k].err = Ok} |-> results[j].share]
           /\ pc' = IF DOMAIN results # DOMAIN nonces THEN "signing"
                    ELSE IF \A j \in DOMAIN results : results[j].err = Ok THEN "signed"
                    ELSE "sign_failed"
    /\ UNCHANGED <<keygen_vars, share_packages, tampered, key_package_results, nonces,
                   signing_package, corrupted, signature, signature_ok, share_verdicts>>

\* Signer j sends z_j + delta instead of z_j.
CorruptShare ==
    /\ pc = "signed"
    /\ corrupted = 0
    /\ \E j \in DOMAIN signature_shares, delta \in Deltas :
         /\ signature_shares' = [signature_shares EXCEPT ![j] = ScalarAdd(@, delta)]
         /\ corrupted' = j
    /\ UNCHANGED <<pc, keygen_vars, share_packages, tampered, key_package_results, nonces,
                   signing_package, sign_results, nonce_uses, signature, signature_ok,
                   share_verdicts>>

\* The coordinator aggregates the shares, checks the signature and verifies
\* every share.
Aggregate ==
    /\ pc = "signed"
    /\ LET verifying_key == public_key_package.group_public
           binding_factor_list == compute_binding_factor_list(signing_package, verifying_key)
           sig == aggregate(signing_package, signature_shares, verifying_key)
           c == challenge(sig.R, verifying_key, signing_package.message)
       IN  /\ signature' = sig
           /\ signature_ok' = VerifySignature(sig, verifying_key, signing_package.message)
           /\ share_verdicts' =
                  [i \in DOMAIN signature_shares |->
                      SignatureShareVerify(
                          signature_shares[i], i,
                          GroupCommitmentShare(signing_package.signing_commitments[i],
                                               binding_factor_list[i]),
                          public_key_package.signer_pubkeys[i],
                          derive_interpolating_value(i, signing_package).value,
                          c)]
    /\ pc' = "done"
    /\ UNCHANGED <<keygen_vars, share_packages, tampered, key_package_results, nonces,
                   signing_package, sign_results, nonce_uses, signature_shares, corrupted>>

\* The coordinator sends a further signing package, for message m, over the
\* commitments it already holds; the signers answer with the nonces they hold.
Reissue ==
    /\ pc = "done"
    /\ \A i \in DOMAIN nonce_uses : nonce_uses[i] < MaxNonceUses
    /\ \E m \in Messages : signing_package' = [signing_package EXCEPT !.message = m]
    /\ sign_results' = <<>>
    /\ signature_shares' = <<>>
    /\ corrupted' = 0
    /\ signature' = NoSignature
    /\ signature_ok' = FALSE
    /\ share_verdicts' = <<>>
    /\ pc' = "signing"
    /\ UNCHANGED <<keygen_vars, share_packages, tampered, key_package_results, nonces,
                   nonce_uses>>

Next ==
    \/ KeygenWithDealer
    \/ TamperShareValue
    \/ TamperCommitment
    \/ TryFrom
    \/ Round1
    \/ FormPackage
    \/ FormPackageWithout
    \/ FormPackageMismatch
    \/ Sign
    \/ CorruptShare
    \/ Aggregate
    \/ Reissue

Spec == Init /\ [][Next]_vars

\* Key generation and share distribution alone: the dealer's call, a share
\* altered in transit, and the participants' conversions.
NextKeygen ==
    \/ KeygenWithDealer
    \/ TamperShareValue
    \/ TamperCommitment
    \/ TryFrom

SpecKeygen == Init /\ [][NextKeygen]_vars

\* ------------------------------------------------------------ properties

RECURSIVE Pow(_, _)
Pow(x, k) == IF k = 0 THEN 1 ELSE ScalarMul(x, Pow(x, k - 1))

\* sum over k of C_k * i^k, for commitment = <<C_0, ..., C_{t-1}>>
RECURSIVE CommitmentSum(_, _, _)
CommitmentSum(commitment, i, k) ==
    IF k = 0 THEN Identity
    ELSE ElementAdd(CommitmentSum(commitment, i, k - 1),
                    ElementMul(commitment[k], Pow(ScalarFrom(i), k - 1)))

\* g^{s_i} = sum over k of C_k * i^k, for one share
VSSHolds(share) ==
    BasepointMul(share.value)
        = CommitmentSum(share.commitment, share.index, Len(share.commitment))

\* The Lagrange coefficient at 0 of i over ids: the scalar l with
\* l * prod (j - i) = prod j, the products over j in ids other than i.
LagrangeAtZero(i, ids) ==
    LET others == ids \ {i} IN
    CHOOSE l \in Scalars :
        ScalarMul(l, ScalarProduct([j \in others |-> ScalarSub(ScalarFrom(j), ScalarFrom(i))],
                                   others))
            = ScalarProduct([j \in others |-> ScalarFrom(j)], others)

PackageIds == DOMAIN signing_package.signing_commitments

\* C1: in an honest run (no share altered in transit, every signer's share
\* aggregated as sign returned it) of at least t signers, the aggregated
\* signature (R, z) satisfies g^z = R + c * Y for the group key Y = g^s.
HonestRunVerifies ==
    (pc = "done" /\ tampered = 0 /\ corrupted = 0) =>
        LET Y == BasepointMul(secret)
            c == challenge(signature.R, Y, signing_package.message)
        IN  /\ BasepointMul(signature.z) = ElementAdd(signature.R, ElementMul(Y, c))
            /\ signature_ok

HonestRunVerifiesWitness ==
    /\ pc = "done"
    /\ tampered = 0
    /\ corrupted = 0
    /\ num_signers = 3
    /\ threshold = 2
    /\ DOMAIN sign_results = {1, 3}
    /\ secret # 0
    /\ signature_ok

\* C2: a nonce pair is used by at most one successful sign call.
NoncesSingleUse ==
    \A i \in DOMAIN nonce_uses : nonce_uses[i] <= 1

\* C3: with fewer commitments in the package than min_signers, sign fails
\* with IncorrectNumberOfCommitments and yields no share, whatever else holds.
TooFewCommitmentsRejected ==
    \A i \in DOMAIN sign_results :
        Cardinality(PackageIds) < threshold =>
            /\ sign_results[i].err = "IncorrectNumberOfCommitments"
            /\ i \notin DOMAIN signature_shares

TooFewCommitmentsRejectedWitness ==
    \E i \in DOMAIN sign_results :
        /\ Cardinality(PackageIds) < threshold
        /\ i \notin PackageIds
        /\ sign_results[i].err = "IncorrectNumberOfCommitments"

\* C4: when signer j sent z_j + delta with delta non-zero, the aggregated
\* signature fails the Schnorr check and the verification of j's share fails
\* with InvalidSignatureShare naming j.
CorruptedShareDetected ==
    (pc = "done" /\ corrupted # 0) =>
        LET Y == BasepointMul(secret)
            c == challenge(signature.R, Y, signing_package.message)
        IN  /\ BasepointMul(signature.z) # ElementAdd(signature.R, ElementMul(Y, c))
            /\ ~signature_ok
            /\ share_verdicts[corrupted]
                   = [err |-> "InvalidSignatureShare", culprit |-> corrupted]

CorruptedShareDetectedWitness ==
    /\ pc = "done"
    /\ corrupted = 3
    /\ signature_shares[3] # sign_results[3].share
    /\ share_verdicts[3].culprit = 3

\* C5: every share produced by a successful keygen satisfies
\* g^{s_i} = sum over k of C_k * i^k and passes SecretShare::verify.
KeygenSharesVerify ==
    (pc # "start" /\ keygen_err = Ok /\ tampered = 0) =>
        /\ \A i \in DOMAIN share_packages : VSSHolds(share_packages[i].secret_share)
        /\ \A i \in DOMAIN key_package_results : key_package_results[i].err = Ok

KeygenSharesVerifyWitness ==
    /\ tampered = 0
    /\ num_signers = 3
    /\ threshold = 3
    /\ secret # 0
    /\ \A k \in DOMAIN coefficients : coefficients[k] # 0
    /\ DOMAIN key_package_results = 1 .. 3

\* C6: with at least min_signers commitments in the package, sign fails with
\* MissingCommitment when the signer has no entry and with IncorrectCommitment
\* when its entry differs from the commitments of the nonces it holds; no
\* share is produced in either case.
OwnCommitmentChecked ==
    \A i \in DOMAIN sign_results :
        Cardinality(PackageIds) >= threshold =>
            /\ i \notin PackageIds =>
                   /\ sign_results[i].err = "MissingCommitment"
                   /\ i \notin DOMAIN signature_shares
            /\ (i \in PackageIds
                  /\ signing_package.signing_commitments[i]
                         # [hiding |-> BasepointMul(nonces[i].hiding),
                            binding |-> BasepointMul(nonces[i].binding)]) =>
                   /\ sign_results[i].err = "IncorrectCommitment"
                   /\ i \notin DOMAIN signature_shares

OwnCommitmentCheckedWitness ==
    /\ 2 \in DOMAIN sign_results
    /\ Cardinality(PackageIds) >= threshold
    /\ 2 \in PackageIds
    /\ signing_package.signing_commitments[2] # nonces[2].commitments
    /\ sign_results[2].err = "IncorrectCommitment"

\* C7 as stated: a call with t < 2 fails with InvalidMinSigners, a call with
\* t > n (and t >= 2) fails with InvalidMinSignersExceedsMaxSigners, and
\* neither returns shares.
KeygenRejectsAsStated ==
    pc # "start" =>
        /\ threshold < 2 => (keygen_err = InvalidMinSigners /\ share_packages = <<>>)
        /\ (threshold >= 2 /\ threshold > num_signers) =>
               (keygen_err = InvalidMinSignersExceedsMaxSigners /\ share_packages = <<>>)

\* C7 amended: a call with t < 2 fails with InvalidMinSigners; a call with
\* t >= 2 and n < 2 fails with InvalidMaxSigners; a call with t >= 2, n >= 2
\* and t > n fails with InvalidMinSignersExceedsMaxSigners; none returns
\* shares.
KeygenRejects ==
    pc # "start" =>
        /\ threshold < 2 => (keygen_err = InvalidMinSigners /\ share_packages = <<>>)
        /\ (threshold >= 2 /\ num_signers < 2) =>
               (keygen_err = InvalidMaxSigners /\ share_packages = <<>>)
        /\ (threshold >= 2 /\ num_signers >= 2 /\ threshold > num_signers) =>
               (keygen_err = InvalidMinSignersExceedsMaxSigners /\ share_packages = <<>>)

KeygenRejectsWitness ==
    /\ pc = "keygen_failed"
    /\ num_signers = 2
    /\ threshold = 3
    /\ keygen_err = InvalidMinSignersExceedsMaxSigners

\* C8: a share package whose share fails g^{s_i} = sum C_k * i^k is refused
\* with InvalidSecretShare and yields no KeyPackage; a conversion that
\* succeeds passed that check and carries over index, secret share, public
\* key and group key.
KeyPackageOnlyFromVerifiedShare ==
    \A i \in DOMAIN key_package_results :
        LET share_package == share_packages[i]
            result == key_package_results[i]
        IN  /\ ~VSSHolds(share_package.secret_share) =>
                   /\ result.err = InvalidSecretShare
                   /\ "key_package" \notin DOMAIN result
            /\ result.err = Ok =>
                   /\ VSSHolds(share_package.secret_share)
                   /\ result.key_package.index = share_package.index
                   /\ result.key_package.secret_share = share_package.secret_share.value
                   /\ result.key_package.public = share_package.public
                   /\ result.key_package.group_public = share_package.group_public

KeyPackageOnlyFromVerifiedShareWitness ==
    /\ pc = "rejected"
    /\ tampered = 2
    /\ key_package_results[1].err = Ok
    /\ key_package_results[2].err = InvalidSecretShare
    /\ share_packages[2].secret_share.value = ShareValue(secret, coefficients, 2)

\* C9: the share of a successful sign is d_i + e_i * rho_i + lambda_i * s_i * c.
SignatureShareFormula ==
    \A i \in DOMAIN sign_results :
        sign_results[i].err = Ok =>
            LET Y == public_key_package.group_public
                rho == compute_binding_factor_list(signing_package, Y)
                R == compute_group_commitment(signing_package, rho).value
                c == challenge(R, Y, signing_package.message)
                lambda_i == LagrangeAtZero(i, PackageIds)
                s_i == share_packages[i].secret_share.value
                d_i == nonces[i].hiding
                e_i == nonces[i].binding
            IN  sign_results[i].share
                    = (d_i + e_i * rho[i] + lambda_i * s_i * c) % Q

SignatureShareFormulaWitness ==
    /\ 3 \in DOMAIN sign_results
    /\ sign_results[3].err = Ok
    /\ PackageIds = {2, 3}
    /\ LagrangeAtZero(3, PackageIds) # 1
    /\ share_packages[3].secret_share.value # 0
    /\ compute_binding_factor_list(signing_package, public_key_package.group_public)[3] # 0
    /\ sign_results[3].share # nonces[3].hiding

\* C10: every coefficient a_1 .. a_{t-1} sampled by keygen is non-zero.
CoefficientsNonZero ==
    (pc # "start" /\ keygen_err = Ok) =>
        /\ Len(coefficients) = threshold - 1
        /\ \A k \in DOMAIN coefficients : coefficients[k] # 0

\* C11: after a successful keygen with threshold t, the commitment attached
\* to every share has t entries, is the same for all shares, and its first
\* entry is g^s, the group key of every SharePackage and of the
\* PublicKeyPackage.
CommitmentMatchesGroupKey ==
    (pc # "start" /\ keygen_err = Ok /\ tampered = 0) =>
        /\ DOMAIN share_packages = 1 .. num_signers
        /\ \A i \in DOMAIN share_packages :
               LET commitment == share_packages[i].secret_share.commitment IN
               /\ Len(commitment) = threshold
               /\ \A j \in DOMAIN share_packages :
                      share_packages[j].secret_share.commitment = commitment
               /\ commitment[1] = BasepointMul(secret)
               /\ share_packages[i].group_public = commitment[1]
               /\ public_key_package.group_public = commitment[1]

CommitmentMatchesGroupKeyWitness ==
    /\ pc = "dealt"
    /\ key_package_results = <<>>
    /\ tampered = 0
    /\ num_signers = 3
    /\ threshold = 2
    /\ secret # 0
    /\ Len(share_packages[3].secret_share.commitment) = 2
    /\ share_packages[3].secret_share.commitment[2] # Identity

\* C12: a share returned by sign and passed on unaltered is never blamed:
\* it satisfies g^{z_i} = (D_i + rho_i * E_i) + (lambda_i * c) * Y_i with
\* Y_i = g^{s_i}, and SignatureShare::verify returns Ok for it.
HonestSignerNotBlamed ==
    pc = "done" =>
        \A i \in DOMAIN share_verdicts :
            i # corrupted =>
                LET Y == public_key_package.group_public
                    rho == compute_binding_factor_list(signing_package, Y)
                    R == compute_group_commitment(signing_package, rho).value
                    c == challenge(R, Y, signing_package.message)
                    lambda_i == LagrangeAtZero(i, PackageIds)
                    Y_i == BasepointMul(share_packages[i].secret_share.value)
                    commitment == signing_package.signing_commitments[i]
                IN  /\ sign_results[i].err = Ok
                    /\ (sign_results[i].share) % Q
                           = (commitment.hiding + rho[i] * commitment.binding
                                + lambda_i * c * Y_i) % Q
                    /\ share_verdicts[i] = [err |-> Ok, culprit |-> 0]

HonestSignerNotBlamedWitness ==
    /\ pc = "done"
    /\ corrupted = 0
    /\ DOMAIN share_verdicts = {1, 2, 3}
    /\ threshold = 3
    /\ \A i \in {1, 2, 3} : share_verdicts[i].err = Ok
    /\ share_packages[2].secret_share.value # 0
    /\ challenge(signature.R, public_key_package.group_public, signing_package.message) # 0

====
